---- MODULE Spec2Model ----
(***************************************************************************)
(* Model of app/main.py: a FastAPI application with five GET routes and    *)
(* one "http" middleware (logging_middleware) that times every request and *)
(* writes one log line per request.                                        *)
(*                                                                         *)
(* State: the process environment (os.environ), the log written through   *)
(* `logger`, and the requests in flight, each with the position of its     *)
(* logging_middleware coroutine.  time.time() reads the wall clock, which  *)
(* runs forward and can be set back at any moment, so each reading is an   *)
(* input of the step that takes it.  Readings count ticks of 0.6 ms, so    *)
(* that the "%.3f" formatting of a duration is a real rounding step.       *)
(***************************************************************************)
EXTENDS Integers, Sequences, FiniteSets, TLC

VARIABLES environ, log, req

vars == <<environ, log, req>>

(* ------------------------------ bounds -------------------------------- *)

\* number of requests the server receives in one behaviour
MaxRequests == 2

\* largest wall-clock reading, in ticks of 0.6 ms
MaxClock == 1

Requests == 1..MaxRequests

\* the values time.time() returns
ClockReadings == 0..MaxClock

\* values the ENVIRONMENT variable is set to
EnvValues == {"staging"}

\* A request path is the part before its trailing slashes and the number of
\* trailing slashes: "/health/" is Path("/health", 1) and "/" is Path("", 1).
Path(stem, slashes) == [stem |-> stem, slashes |-> slashes]

\* a path without trailing slash
P(stem) == Path(stem, 0)

\* the path "/"
Slash == Path("", 1)

\* request paths: the five routes and a path nothing matches
Paths == {Slash, P("/health"), P("/ready"), P("/api/items"), P("/api/status"),
          P("/nonexistent")}

\* the requests clients send: a GET of every path
RequestLines == {"GET"} \X Paths

\* failures of the downstream application (no handler of main.py raises; the
\* failure is an input, such as the server's "No response returned")
Exceptions == {"RuntimeError"}

\* what the await of line 22 raises when the request's task is cancelled
CancelledError == "CancelledError"

(* ------------------------ the process environment --------------------- *)

\* os.environ with ENVIRONMENT absent
EnvUnset == [k \in {} |-> ""]

\* os.environ with ENVIRONMENT = v
EnvSet(v) == [k \in {"ENVIRONMENT"} |-> v]

\* variant of os_getenv that never finds the key (a misspelt variable name)
os_getenv_missing(e, key, default) == default

\* os.getenv(key, default): the value if the key is present, else default
os_getenv(e, key, default) == IF key \in DOMAIN e THEN e[key] ELSE default

(* ------------------------------ handlers ------------------------------ *)
(* A handler yields the lines it logs, the values it read from the        *)
(* environment, and the mapping it returns.                               *)

\* variant of root without its logger.info call
root_silent(e) ==
    [logged   |-> <<>>,
     env_read |-> <<os_getenv(e, "ENVIRONMENT", "development")>>,
     content  |-> [message     |-> "Welcome to FastAPI GitOps Demo",
                   version     |-> "1.0.0",
                   environment |-> os_getenv(e, "ENVIRONMENT", "development")]]

root(e) ==
    [logged   |-> <<"Root endpoint accessed">>,
     env_read |-> <<os_getenv(e, "ENVIRONMENT", "development")>>,
     content  |-> [message     |-> "Welcome to FastAPI GitOps Demo",
                   version     |-> "1.0.0",
                   environment |-> os_getenv(e, "ENVIRONMENT", "development")]]

\* variant of health that takes the service name from ENVIRONMENT
health_from_env ==
    [logged   |-> <<>>,
     env_read |-> <<>>,
     content  |-> [status  |-> "healthy",
                   service |-> os_getenv(environ, "ENVIRONMENT", "fastapi-demo")]]

health ==
    [logged   |-> <<>>,
     env_read |-> <<>>,
     content  |-> [status |-> "healthy", service |-> "fastapi-demo"]]

\* variant of ready that answers as health does (a copied handler body)
ready_copied ==
    [logged   |-> <<>>,
     env_read |-> <<>>,
     content  |-> [status |-> "healthy", service |-> "fastapi-demo"]]

ready ==
    [logged   |-> <<>>,
     env_read |-> <<>>,
     content  |-> [status |-> "ready", service |-> "fastapi-demo"]]

\* variant of get_items with the second and third record exchanged
get_items_reordered ==
    [logged   |-> <<"Items endpoint accessed">>,
     env_read |-> <<>>,
     content  |-> [items |-> << [id |-> 1, name |-> "Item 1", description |-> "First item"],
                               [id |-> 3, name |-> "Item 3", description |-> "Third item"],
                               [id |-> 2, name |-> "Item 2", description |-> "Second item"] >>]]

get_items ==
    [logged   |-> <<"Items endpoint accessed">>,
     env_read |-> <<>>,
     content  |-> [items |-> << [id |-> 1, name |-> "Item 1", description |-> "First item"],
                               [id |-> 2, name |-> "Item 2", description |-> "Second item"],
                               [id |-> 3, name |-> "Item 3", description |-> "Third item"] >>]]

\* variant of status whose "status" field depends on what was logged before
status_stateful(e) ==
    [logged   |-> <<>>,
     env_read |-> <<os_getenv(e, "ENVIRONMENT", "development")>>,
     content  |-> [app         |-> "fastapi-demo",
                   version     |-> "1.0.0",
                   status      |-> IF log = <<>> THEN "starting" ELSE "running",
                   environment |-> os_getenv(e, "ENVIRONMENT", "development")]]

status(e) ==
    [logged   |-> <<>>,
     env_read |-> <<os_getenv(e, "ENVIRONMENT", "development")>>,
     content  |-> [app         |-> "fastapi-demo",
                   version     |-> "1.0.0",
                   status      |-> "running",
                   environment |-> os_getenv(e, "ENVIRONMENT", "development")]]

(* ------------------------------- routing ------------------------------ *)

\* the paths bound by @app.get
Routes == {Slash, P("/health"), P("/ready"), P("/api/items"), P("/api/status")}

\* the handler bound to a path
endpoint(path, e) ==
    CASE path = Slash            -> root(e)
      [] path = P("/health")     -> health
      [] path = P("/ready")      -> ready
      [] path = P("/api/items")  -> get_items
      [] path = P("/api/status") -> status(e)

\* the routes FastAPI(title=..., version=...) adds by default: the OpenAPI
\* schema and the documentation pages
DocsRoutes == {P("/openapi.json"), P("/docs"), P("/docs/oauth2-redirect"), P("/redoc")}

\* the response FastAPI builds from a handler's return value
JSONResponse(content, status_code) == [status_code |-> status_code, body |-> content]

\* the response of a documentation route: the schema of the application as
\* JSON, or an HTML page that loads it
docs_response(path) ==
    IF path = P("/openapi.json")
    THEN JSONResponse([title |-> "FastAPI GitOps Demo", version |-> "1.0.0",
                       paths |-> Routes], 200)
    ELSE [status_code |-> 200, body |-> [html |-> path.stem]]

\* path.rstrip("/")
rstrip_slashes(path) == [path EXCEPT !.slashes = 0]

\* the router's second try for a path no route matches: the path without
\* its trailing slashes if it ends in one, else the path with one appended
redirect_path(path) ==
    IF path.slashes > 0
    THEN rstrip_slashes(path)
    ELSE [path EXCEPT !.slashes = 1]

\* RedirectResponse(url): status 307, empty body, Location header
RedirectResponse(url) == [status_code |-> 307, body |-> <<>>, location |-> url]

\* call_next(request): the application below the middleware.  A matched GET
\* of one of the five routes runs the handler and answers 200 with its
\* mapping; a documentation route answers GET and HEAD with 200 (a plain
\* Starlette route takes HEAD with GET); a matched path with another method
\* is answered 405; an unmatched path whose slash twin is a route is
\* redirected to it; any other path is answered 404.
call_next(method, path, e) ==
    IF path \in Routes /\ method = "GET"
    THEN LET h == endpoint(path, e)
         IN  [logged   |-> h.logged,
              env_read |-> h.env_read,
              response |-> JSONResponse(h.content, 200)]
    ELSE IF path \in DocsRoutes /\ method \in {"GET", "HEAD"}
    THEN [logged   |-> <<>>,
          env_read |-> <<>>,
          response |-> docs_response(path)]
    ELSE IF path \in Routes \cup DocsRoutes
    THEN [logged   |-> <<>>,
          env_read |-> <<>>,
          response |-> JSONResponse([detail |-> "Method Not Allowed"], 405)]
    ELSE IF path # Slash /\ redirect_path(path) \in Routes \cup DocsRoutes
    THEN [logged   |-> <<>>,
          env_read |-> <<>>,
          response |-> RedirectResponse(redirect_path(path))]
    ELSE [logged   |-> <<>>,
          env_read |-> <<>>,
          response |-> JSONResponse([detail |-> "Not Found"], 404)]

(* ------------------------------- logging ------------------------------ *)

Abs(n) == IF n < 0 THEN -n ELSE n

\* f"{duration:.3f}" of a duration of d ticks (0.6 ms each): the sign and
\* the thousandths of a second, rounded to nearest
FormatDuration(d) == [neg |-> d < 0, millis |-> (6 * Abs(d) + 5) \div 10]

\* the line logger.info(f"{method} {path} - {status_code} - {duration:.3f}s")
\* writes; r tags the line with the request it belongs to
TimingLine(r, method, path, status_code, d) ==
    [req |-> r, kind |-> "timing", method |-> method, path |-> path,
     status_code |-> status_code, duration |-> FormatDuration(d)]

\* the line logger.info(message) writes in a handler
AccessLine(r, message) == [req |-> r, kind |-> "access", message |-> message]

RECURSIVE AccessLines(_, _)
AccessLines(r, msgs) ==
    IF msgs = <<>> THEN <<>>
    ELSE <<AccessLine(r, Head(msgs))>> \o AccessLines(r, Tail(msgs))

\* variant of logging_middleware that logs successful responses only
logging_middleware_ok_only(r, q, now) ==
    LET response    == q.response[1]
        duration    == now - q.start_time
        status_code == response.status_code
    IN  [logged   |-> IF status_code = 200
                      THEN <<TimingLine(r, q.method, q.path, status_code, duration)>>
                      ELSE <<>>,
         returned |-> <<response>>,
         raised   |-> <<>>]

\* variant of logging_middleware that builds a new 200 response from the body
logging_middleware_rewrap(r, q, now) ==
    LET response    == q.response[1]
        duration    == now - q.start_time
        status_code == response.status_code
    IN  [logged   |-> <<TimingLine(r, q.method, q.path, status_code, duration)>>,
         returned |-> <<JSONResponse(response.body, 200)>>,
         raised   |-> <<>>]

\* logging_middleware from the point where `await call_next(request)`
\* returns a response: the response is timed, logged and returned.
logging_middleware(r, q, now) ==
    LET response    == q.response[1]
        duration    == now - q.start_time
        status_code == response.status_code
    IN  [logged   |-> <<TimingLine(r, q.method, q.path, status_code, duration)>>,
         returned |-> <<response>>,
         raised   |-> <<>>]

\* variant of logging_middleware_raise with an `except` block that logs the
\* failure as status 500 before raising it again
logging_middleware_raise_logged(r, q, e) ==
    [logged   |-> <<TimingLine(r, q.method, q.path, 500, 0)>>,
     returned |-> <<>>,
     raised   |-> <<e>>]

\* logging_middleware when `await call_next(request)` raises e: the coroutine
\* has no try block, so e leaves it at the await and lines 24-29 do not run
logging_middleware_raise(r, q, e) ==
    [logged |-> <<>>, returned |-> <<>>, raised |-> <<e>>]

(* ------------------------------- state -------------------------------- *)

\* a request the server has not received yet
Idle ==
    [pc |-> "idle", method |-> "", path |-> Path("", 0), start_time |-> 0,
     response |-> <<>>, exc |-> <<>>, call_exc |-> <<>>, env_read |-> <<>>,
     returned |-> <<>>, raised |-> <<>>]

Init ==
    /\ environ \in {EnvUnset} \cup {EnvSet(v) : v \in EnvValues}
    /\ log = <<>>
    /\ req = [r \in Requests |-> Idle]

(* ------------------------------ actions ------------------------------- *)

\* the environment variable is set (os.environ["ENVIRONMENT"] = v)
SetEnv(v) ==
    /\ environ # EnvSet(v)
    /\ environ' = EnvSet(v)
    /\ UNCHANGED <<log, req>>

\* the environment variable is removed
UnsetEnv ==
    /\ environ # EnvUnset
    /\ environ' = EnvUnset
    /\ UNCHANGED <<log, req>>

\* logging_middleware up to `await call_next(request)`.  Requests are numbered
\* in the order they arrive; any number of them may be in flight at once.
\* now is the reading time.time() returns for start_time.
MiddlewareEnter(r, method, path, now) ==
    /\ req[r].pc = "idle"
    /\ \A q \in Requests : q < r => req[q].pc # "idle"
    /\ req' = [req EXCEPT ![r] = [@ EXCEPT !.pc = "calling",
                                           !.method = method,
                                           !.path = path,
                                           !.start_time = now]]
    /\ UNCHANGED <<environ, log>>

\* the downstream application answers the request
CallNextReturns(r) ==
    /\ req[r].pc = "calling"
    /\ LET out == call_next(req[r].method, req[r].path, environ)
       IN  /\ log' = log \o AccessLines(r, out.logged)
           /\ req' = [req EXCEPT ![r] = [@ EXCEPT !.pc = "resuming",
                                                  !.response = <<out.response>>,
                                                  !.env_read = out.env_read]]
    /\ UNCHANGED environ

\* the downstream application fails with exception e.  call_next keeps the
\* exception; logging_middleware, suspended at the await, is resumed with it
\* in a later turn of the event loop.  The coroutine's frame, start_time
\* with it, stays as it is until then.
DownstreamFails(r, e) ==
    /\ req[r].pc = "calling"
    /\ req' = [req EXCEPT ![r] = [@ EXCEPT !.pc = "raising", !.exc = <<e>>]]
    /\ UNCHANGED <<environ, log>>

\* `await call_next(request)` raises the failure of the downstream
\* application, which leaves logging_middleware
CallNextRaises(r) ==
    /\ req[r].pc = "raising"
    /\ LET e   == req[r].exc[1]
           out == logging_middleware_raise(r, req[r], e)
       IN  /\ log' = log \o out.logged
           /\ req' = [req EXCEPT ![r] = [@ EXCEPT !.pc = "failed",
                                                  !.start_time = 0,
                                                  !.call_exc = <<e>>,
                                                  !.returned = out.returned,
                                                  !.raised = out.raised]]
    /\ UNCHANGED environ

\* the request's task is cancelled (the server shuts down, the client goes
\* away) while logging_middleware is suspended at `await call_next(request)`,
\* before the downstream application has run, after it has answered, or
\* after it has failed and before its failure has reached the await: the
\* await raises CancelledError, which leaves the middleware; a failure of
\* the downstream application that was still on its way is lost
RequestCancelled(r) ==
    /\ req[r].pc \in {"calling", "resuming", "raising"}
    /\ LET out == logging_middleware_raise(r, req[r], CancelledError)
       IN  /\ log' = log \o out.logged
           /\ req' = [req EXCEPT ![r] = [@ EXCEPT !.pc = "failed",
                                                  !.start_time = 0,
                                                  !.call_exc = <<CancelledError>>,
                                                  !.returned = out.returned,
                                                  !.raised = out.raised]]
    /\ UNCHANGED environ

\* logging_middleware after `await call_next(request)` has returned; the
\* coroutine's frame, start_time with it, is gone once it has returned.  now is
\* the reading time.time() returns on line 24; it is below start_time if the
\* system clock was set back in between.
MiddlewareResume(r, now) ==
    /\ req[r].pc = "resuming"
    /\ LET out == logging_middleware(r, req[r], now)
       IN  /\ log' = log \o out.logged
           /\ req' = [req EXCEPT ![r] = [@ EXCEPT
                        !.pc = "done",
                        !.start_time = 0,
                        !.returned = out.returned,
                        !.raised = out.raised]]
    /\ UNCHANGED environ

Next ==
    \/ \E v \in EnvValues : SetEnv(v)
    \/ UnsetEnv
    \/ \E r \in Requests, l \in RequestLines, now \in ClockReadings :
          MiddlewareEnter(r, l[1], l[2], now)
    \/ \E r \in Requests : CallNextReturns(r)
    \/ \E r \in Requests, e \in Exceptions : DownstreamFails(r, e)
    \/ \E r \in Requests : CallNextRaises(r)
    \/ \E r \in Requests : RequestCancelled(r)
    \/ \E r \in Requests, now \in ClockReadings : MiddlewareResume(r, now)

Spec == Init /\ [][Next]_vars

(* ------------------------- auxiliary definitions ---------------------- *)

\* the middleware has returned a response for request r
Served(r) == req[r].pc = "done"

\* request r is a GET of one of the five routes
RoutedGet(r) == req[r].method = "GET" /\ req[r].path \in Routes

\* positions of the timing lines of request r in the log
TimingLinesOf(r) == {i \in DOMAIN log : log[i].req = r /\ log[i].kind = "timing"}

\* positions of the handler lines of request r in the log
AccessLinesOf(r) == {i \in DOMAIN log : log[i].req = r /\ log[i].kind = "access"}

\* the body the client of request r received
Body(r) == req[r].returned[1].body

\* what os.getenv("ENVIRONMENT", "development") yields in the current state
EnvironmentNow ==
    IF "ENVIRONMENT" \in DOMAIN environ THEN environ["ENVIRONMENT"] ELSE "development"

\* the three demo records of /api/items
ItemNames == <<"Item 1", "Item 2", "Item 3">>
ItemDescriptions == <<"First item", "Second item", "Third item">>

(* -------------------------------- claims ------------------------------ *)

\* C1: a served GET of each of the five routes has status 200 and a body
\* with exactly the keys and the fixed values of the route table.
C1_RouteTable ==
    \A r \in Requests :
        (Served(r) /\ RoutedGet(r)) =>
            /\ req[r].returned[1].status_code = 200
            /\ req[r].path = Slash =>
                  /\ DOMAIN Body(r) = {"message", "version", "environment"}
                  /\ Body(r).version = "1.0.0"
            /\ req[r].path = P("/health") =>
                  /\ DOMAIN Body(r) = {"status", "service"}
                  /\ Body(r).status = "healthy"
                  /\ Body(r).service = "fastapi-demo"
            /\ req[r].path = P("/ready") =>
                  /\ DOMAIN Body(r) = {"status", "service"}
                  /\ Body(r).status = "ready"
                  /\ Body(r).service = "fastapi-demo"
            /\ req[r].path = P("/api/items") =>
                  DOMAIN Body(r) = {"items"}
            /\ req[r].path = P("/api/status") =>
                  /\ DOMAIN Body(r) = {"app", "version", "status", "environment"}
                  /\ Body(r).app = "fastapi-demo"
                  /\ Body(r).version = "1.0.0"
                  /\ Body(r).status = "running"

\* C1 witness: a GET of /ready and a GET of /api/status have both been served
C1_Witness ==
    \E r, q \in Requests :
        /\ Served(r) /\ req[r].method = "GET" /\ req[r].path = P("/ready")
        /\ Served(q) /\ req[q].method = "GET" /\ req[q].path = P("/api/status")
        /\ req[r].returned[1].status_code = 200
        /\ req[q].returned[1].status_code = 200

\* C2: when the handler of / or /api/status runs, the environment field of
\* its response is the value ENVIRONMENT has in that very step, or
\* "development" if it is unset in that step.
C2_EnvironmentReadPerRequest ==
    [][\A r \in Requests :
          (/\ req[r].pc = "calling"
           /\ req'[r].pc = "resuming"
           /\ req'[r].response # <<>>
           /\ req[r].method = "GET"
           /\ req[r].path \in {Slash, P("/api/status")})
          => req'[r].response[1].body.environment = EnvironmentNow]_vars

\* C2 witness: two GETs of / were served, the earlier one while ENVIRONMENT
\* was unset and the later one after it was set to "staging"
C2_Witness ==
    \E r, q \in Requests :
        /\ r < q
        /\ Served(r) /\ req[r].method = "GET" /\ req[r].path = Slash
        /\ Served(q) /\ req[q].method = "GET" /\ req[q].path = Slash
        /\ Body(r).environment = "development"
        /\ Body(q).environment = "staging"

\* C3: every served GET of one of the five routes has exactly one timing
\* line, and the duration printed in that line is not below 0.000.
C3_OneTimingLineNonNegative ==
    \A r \in Requests :
        (Served(r) /\ RoutedGet(r)) =>
            /\ Cardinality(TimingLinesOf(r)) = 1
            /\ \A i \in TimingLinesOf(r) :
                  ~(log[i].duration.neg /\ log[i].duration.millis > 0)

\* C4 as stated: a served GET of a path no route matches has status 404
\* and no timing line.
C4_UnmatchedNotLogged ==
    \A r \in Requests :
        (Served(r) /\ req[r].method = "GET" /\ req[r].path \notin Routes) =>
            /\ req[r].returned[1].status_code = 404
            /\ TimingLinesOf(r) = {}

\* C4 as amended: a served GET of a path that no route of the application
\* matches, with or without trailing slashes (none of the five routes and
\* no documentation route), has status 404, no handler line, and
\* exactly one timing line, which reports its method, its path and 404.
C4_UnmatchedLoggedAs404 ==
    \A r \in Requests :
        (/\ Served(r) /\ req[r].method = "GET"
         /\ \A p \in Routes \cup DocsRoutes : p.stem # req[r].path.stem) =>
            /\ req[r].returned[1].status_code = 404
            /\ AccessLinesOf(r) = {}
            /\ Cardinality(TimingLinesOf(r)) = 1
            /\ \A i \in TimingLinesOf(r) :
                  /\ log[i].method = "GET"
                  /\ log[i].path = req[r].path
                  /\ log[i].status_code = 404

\* C4 witness: a GET of /nonexistent has been served
C4_Witness ==
    \E r \in Requests :
        /\ Served(r) /\ req[r].method = "GET" /\ req[r].path = P("/nonexistent")
        /\ TimingLinesOf(r) # {}

\* C5 as stated: two served requests with the same method and path have
\* identical bodies.
C5_IdenticalRequestsIdenticalBodies ==
    \A r, q \in Requests :
        (/\ Served(r) /\ Served(q)
         /\ req[r].method = req[q].method
         /\ req[r].path = req[q].path)
        => Body(r) = Body(q)

\* C5 as amended: two served requests with the same method and path whose
\* handlers read the same value of ENVIRONMENT (or read nothing) have
\* identical bodies, and no step of a request changes the environment.
C5_IdenticalUnderSameEnvironment ==
    /\ [](\A r, q \in Requests :
            (/\ Served(r) /\ Served(q)
             /\ req[r].method = req[q].method
             /\ req[r].path = req[q].path
             /\ req[r].env_read = req[q].env_read)
            => req[r].returned = req[q].returned)
    /\ [][req' # req => environ' = environ]_vars

\* C5 witness: two GETs of /api/status were served with the same value read
C5_Witness ==
    \E r, q \in Requests :
        /\ r # q
        /\ Served(r) /\ req[r].method = "GET" /\ req[r].path = P("/api/status")
        /\ Served(q) /\ req[q].method = "GET" /\ req[q].path = P("/api/status")
        /\ req[r].env_read = <<"staging">>
        /\ req[q].env_read = <<"staging">>

\* C6: the response the middleware returns is the response call_next
\* produced, status code and body unchanged.
C6_ResponseUnmodified ==
    \A r \in Requests :
        Served(r) =>
            /\ req[r].response # <<>>
            /\ req[r].returned = req[r].response

\* C6 witness: a 200 response and a 404 response have passed the middleware
C6_Witness ==
    \E r, q \in Requests :
        /\ Served(r) /\ req[r].returned[1].status_code = 200
        /\ Served(q) /\ req[q].returned[1].status_code # 200

\* C7: a served GET of /api/items carries exactly the three demo records,
\* ids 1, 2, 3 in that order, with their literal names and descriptions.
C7_ThreeFixedItems ==
    \A r \in Requests :
        (Served(r) /\ req[r].method = "GET" /\ req[r].path = P("/api/items")) =>
            /\ Len(Body(r).items) = 3
            /\ \A i \in 1..3 :
                  /\ DOMAIN Body(r).items[i] = {"id", "name", "description"}
                  /\ Body(r).items[i].id = i
                  /\ Body(r).items[i].name = ItemNames[i]
                  /\ Body(r).items[i].description = ItemDescriptions[i]

\* C7 witness: /api/items has been served twice
C7_Witness ==
    \E r, q \in Requests :
        /\ r # q
        /\ Served(r) /\ req[r].method = "GET" /\ req[r].path = P("/api/items")
        /\ Served(q) /\ req[q].method = "GET" /\ req[q].path = P("/api/items")

\* C8: whatever the state of ENVIRONMENT, the handler of /health reads
\* nothing from it and answers {status: healthy, service: fastapi-demo}.
C8_HealthIgnoresEnvironment ==
    [][\A r \in Requests :
          (/\ req[r].pc = "calling"
           /\ req'[r].pc = "resuming"
           /\ req'[r].response # <<>>
           /\ req[r].method = "GET"
           /\ req[r].path = P("/health"))
          => /\ req'[r].env_read = <<>>
             /\ req'[r].response[1] =
                    [status_code |-> 200,
                     body |-> [status |-> "healthy", service |-> "fastapi-demo"]]]_vars

\* C8 witness: /health has been served twice with the same response, in a
\* behaviour in which ENVIRONMENT is set
C8_Witness ==
    \E r, q \in Requests :
        /\ r # q
        /\ Served(r) /\ req[r].method = "GET" /\ req[r].path = P("/health")
        /\ Served(q) /\ req[q].method = "GET" /\ req[q].path = P("/health")
        /\ req[r].returned = req[q].returned
        /\ environ = EnvSet("staging")

\* C9: a timing line of a request exists only once its downstream call has
\* produced a response; a GET of / or /api/items that has been answered has
\* exactly one handler line, with its message, before its timing line; any
\* other request has no handler line.
C9_AccessLineBeforeTimingLine ==
    \A r \in Requests :
        /\ TimingLinesOf(r) # {} => req[r].response # <<>>
        /\ (req[r].response # <<>> /\ req[r].method = "GET"
                /\ req[r].path \in {Slash, P("/api/items")}) =>
              /\ Cardinality(AccessLinesOf(r)) = 1
              /\ \A i \in AccessLinesOf(r) :
                    /\ log[i].message = IF req[r].path = Slash
                                        THEN "Root endpoint accessed"
                                        ELSE "Items endpoint accessed"
                    /\ \A j \in TimingLinesOf(r) : i < j
        /\ ~(req[r].method = "GET" /\ req[r].path \in {Slash, P("/api/items")}) =>
              AccessLinesOf(r) = {}

\* C9 witness: a GET of / and a GET of /health have been served, and the
\* log holds the handler line of the first before its timing line
C9_Witness ==
    \E r, q \in Requests :
        /\ Served(r) /\ req[r].method = "GET" /\ req[r].path = Slash
        /\ Served(q) /\ req[q].method = "GET" /\ req[q].path = P("/health")
        /\ \E i \in AccessLinesOf(r), j \in TimingLinesOf(r) : i < j

\* C10 as stated: a request whose downstream application failed leaves the
\* middleware with that same failure, without a response and without a
\* timing line; a timing line exists only for requests whose downstream call
\* returned a response.
C10_DownstreamFailurePropagated ==
    \A r \in Requests :
        /\ (req[r].exc # <<>> /\ req[r].pc = "failed") =>
              /\ req[r].raised = req[r].exc
              /\ req[r].returned = <<>>
              /\ TimingLinesOf(r) = {}
        /\ TimingLinesOf(r) # {} => req[r].response # <<>>

\* C10 as amended: a step in which `await call_next(request)` raises ends
\* the middleware with exactly the exception the await raised, returns no
\* response and writes no log line, so no timing line.  The await raises the
\* failure of the downstream application, or CancelledError if the request's
\* task was cancelled first (a downstream failure still on its way is then
\* lost).  At all times a request that has failed has no response returned
\* and no timing line, and a timing line exists only for requests whose
\* downstream call returned a response and whose middleware returned it.
C10_AwaitFailurePropagatesUnlogged ==
    /\ [](\A r \in Requests :
            /\ req[r].call_exc # <<>> <=> req[r].pc = "failed"
            /\ req[r].pc = "failed" =>
                  /\ req[r].raised = req[r].call_exc
                  /\ req[r].call_exc \in {req[r].exc, <<CancelledError>>}
                  /\ req[r].returned = <<>>
                  /\ TimingLinesOf(r) = {}
            /\ req[r].exc # <<>> =>
                  /\ req[r].pc \in {"raising", "failed"}
                  /\ req[r].response = <<>>
            /\ TimingLinesOf(r) # {} => (req[r].response # <<>> /\ Served(r)))
    /\ [][\A r \in Requests :
            (req[r].pc # "failed" /\ req'[r].pc = "failed") =>
                /\ log' = log
                /\ req[r].pc = "raising" =>
                      req'[r].raised \in {req[r].exc, <<CancelledError>>}
                /\ req[r].pc \in {"calling", "resuming"} =>
                      req'[r].raised = <<CancelledError>>]_vars

\* C10 witness: the downstream application failed for two requests; the
\* failure of one has left the middleware, the other was cancelled before
\* its failure reached the await
C10_Witness ==
    \E r, q \in Requests :
        /\ req[r].pc = "failed" /\ req[r].exc = <<"RuntimeError">>
        /\ req[r].raised = <<"RuntimeError">>
        /\ req[q].pc = "failed" /\ req[q].exc = <<"RuntimeError">>
        /\ req[q].raised = <<CancelledError>>

====
